---- MODULE Spec2Model ----
(***************************************************************************)
(* Model of the apiary.io client library (package apiary).                 *)
(*                                                                         *)
(* A call of one of the five exported operations (or of the unexported     *)
(* request helper, which the package's own tests call directly) runs in    *)
(* three steps, split where the code blocks on the network:                *)
(*   1. the operation builds its request (path template, authorization     *)
(*      header, http.NewRequest),                                          *)
(*   2. client.Do sends it and yields a transport error or a response,     *)
(*   3. readResponse reads the body and the operation validates the        *)
(*      status and decodes the JSON body.                                  *)
(*                                                                         *)
(* Go strings are sequences of chunks: a chunk is either a run of ordinary *)
(* bytes (a TLA+ string) or one of the single special bytes below.  A      *)
(* body is a sequence of JSON lexical tokens; a string token carries the   *)
(* raw text between its quotes.                                            *)
(***************************************************************************)
EXTENDS Integers, Sequences, FiniteSets, TLC

(***************************************************************************)
(* Bounds of the model.                                                    *)
(***************************************************************************)
\* Largest declared Content-Length a response carries (the smallest is -1,
\* which net/http reports for a body of unknown length).
MaxContentLength == 3
\* Number of goroutines that may hold the client.
NumCallers == 2

Callers == 1..NumCallers

(***************************************************************************)
(* Special bytes of a Go string.                                           *)
(***************************************************************************)
LF == "<LF>"       \* the byte 0x0A
BAD == "<0xFF>"     \* a byte that is not valid UTF-8
FFFD == "<U+FFFD>"  \* the Unicode replacement character
QUOTE == "<QUOTE>"  \* the byte 0x22
SEMI == ";"         \* a separator, not an HTTP token character

\* Bytes below 0x20 (and 0x7F): the control characters.
CtlBytes == {LF}
\* Bytes that may not occur in an HTTP method token.
NotTokenBytes == {LF, BAD, QUOTE, SEMI}

(***************************************************************************)
(* Errors: Go's error interface, nil or a value carrying a message.        *)
(***************************************************************************)
NilErr == [nil |-> TRUE, msg |-> <<>>]
NewError(m) == [nil |-> FALSE, msg |-> m]

(***************************************************************************)
(* Constants of apiary.go.                                                 *)
(***************************************************************************)
ApiaryAPIURL == <<"https://api.apiary.io/">>
ApiaryActionMe == <<"me">>
ApiaryActionGetApis == <<"me/apis">>
ApiaryActionGetTeamApis == <<"me/teams/", "%s", "/apis">>
ApiaryActionFetchBlueprint == <<"blueprint/get/", "%s">>
ApiaryActionPublishBlueprint == <<"blueprint/publish/", "%s">>

StatusOK == 200
StatusCreated == 201
StatusNotFound == 404

RECURSIVE Sprintf(_, _)
\* fmt.Sprintf with a format holding one %s verb: the argument replaces the
\* verb byte for byte.
Sprintf(format, arg) ==
    IF format = <<>> THEN <<>>
    ELSE (IF Head(format) = "%s" THEN arg ELSE <<Head(format)>>)
         \o Sprintf(Tail(format), arg)

(***************************************************************************)
(* JSON tokens.                                                            *)
(***************************************************************************)
P(t) == [t |-> t, raw |-> <<>>]
S(raw) == [t |-> "str", raw |-> raw]

LBRACE == P("{")
RBRACE == P("}")
LBRACK == P("[")
RBRACK == P("]")
COLON == P(":")
COMMA == P(",")
JTRUE == P("true")
JFALSE == P("false")
JNULLTOK == P("null")
JNUM == P("num")
WORD == P("word")   \* a bare identifier, which is not JSON

\* Escape sequences inside a JSON string.
EscN == "\\n"
EscQuote == "\\\""
EscFFFD == "\\ufffd"


RECURSIVE escapeString(_)
\* encoding/json's string encoder: a control byte and a quote are escaped,
\* a byte that is not valid UTF-8 is written as the escape of U+FFFD.
escapeString(text) ==
    IF text = <<>> THEN <<>>
    ELSE LET c == Head(text)
             e == CASE c = LF -> EscN
                    [] c = QUOTE -> EscQuote
                    [] c = BAD -> EscFFFD
                    [] OTHER -> c
         IN  <<e>> \o escapeString(Tail(text))

RECURSIVE unquote(_)
\* encoding/json's unquote: escapes are resolved, a raw byte that is not
\* valid UTF-8 becomes U+FFFD.
unquote(raw) ==
    IF raw = <<>> THEN <<>>
    ELSE LET c == Head(raw)
             d == CASE c = EscN -> LF
                    [] c = EscQuote -> QUOTE
                    [] c = EscFFFD -> FFFD
                    [] c = BAD -> FFFD
                    [] OTHER -> c
         IN  <<d>> \o unquote(Tail(raw))

\* The scanner rejects a raw control byte inside a string; a raw quote
\* would have ended the string.
validString(raw) == \A i \in 1..Len(raw) : raw[i] \notin CtlBytes \cup {QUOTE}

\* The request body, had it been put together without the JSON encoder.
MarshalByHand(content) ==
    <<LBRACE, S(<<"code">>), COLON, S(content), RBRACE>>

\* json.Marshal(map[string]string{"code": string(content)}).
Marshal(content) ==
    <<LBRACE, S(<<"code">>), COLON, S(escapeString(content)), RBRACE>>

(***************************************************************************)
(* JSON values and the parser (the scanner's checkValid plus the value     *)
(* tree the decoder walks).                                                *)
(***************************************************************************)
JV(t, x) == [t |-> t, x |-> x]
ParseFail == [ok |-> FALSE, val |-> JV("null", <<>>), next |-> 0]
ParseOk(v, n) == [ok |-> TRUE, val |-> v, next |-> n]

RECURSIVE parseValue(_, _)
RECURSIVE parseElems(_, _, _)
RECURSIVE parseMembers(_, _, _)

parseValue(b, i) ==
    IF i > Len(b) THEN ParseFail
    ELSE LET tk == b[i] IN
         CASE tk.t = "null" -> ParseOk(JV("null", <<>>), i + 1)
           [] tk.t = "true" -> ParseOk(JV("bool", TRUE), i + 1)
           [] tk.t = "false" -> ParseOk(JV("bool", FALSE), i + 1)
           [] tk.t = "num" -> ParseOk(JV("num", <<>>), i + 1)
           [] tk.t = "str" ->
                IF validString(tk.raw)
                THEN ParseOk(JV("str", unquote(tk.raw)), i + 1)
                ELSE ParseFail
           [] tk.t = "[" ->
                IF i + 1 <= Len(b) /\ b[i + 1].t = "]"
                THEN ParseOk(JV("arr", <<>>), i + 2)
                ELSE parseElems(b, i + 1, <<>>)
           [] tk.t = "{" ->
                IF i + 1 <= Len(b) /\ b[i + 1].t = "}"
                THEN ParseOk(JV("obj", <<>>), i + 2)
                ELSE parseMembers(b, i + 1, <<>>)
           [] OTHER -> ParseFail

parseElems(b, i, acc) ==
    LET r == parseValue(b, i) IN
    IF ~r.ok \/ r.next > Len(b) THEN ParseFail
    ELSE IF b[r.next].t = "," THEN parseElems(b, r.next + 1, Append(acc, r.val))
    ELSE IF b[r.next].t = "]" THEN ParseOk(JV("arr", Append(acc, r.val)), r.next + 1)
    ELSE ParseFail

parseMembers(b, i, acc) ==
    IF i + 1 > Len(b) \/ b[i].t # "str" \/ b[i + 1].t # ":" THEN ParseFail
    ELSE IF ~validString(b[i].raw) THEN ParseFail
    ELSE LET r == parseValue(b, i + 2)
             m == [key |-> unquote(b[i].raw), val |-> r.val]
         IN  IF ~r.ok \/ r.next > Len(b) THEN ParseFail
             ELSE IF b[r.next].t = "," THEN parseMembers(b, r.next + 1, Append(acc, m))
             ELSE IF b[r.next].t = "}" THEN ParseOk(JV("obj", Append(acc, m)), r.next + 1)
             ELSE ParseFail

\* checkValid: the bytes are exactly one JSON value.
checkValid(data) ==
    LET r == parseValue(data, 1) IN r.ok /\ r.next = Len(data) + 1


(***************************************************************************)
(* Go types and values, as far as the result types of the package need     *)
(* them.  A pointer value holds no element (nil) or one.  A nil slice and  *)
(* an empty slice are not told apart.                                      *)
(***************************************************************************)
TString == [k |-> "string", fields |-> <<>>, elem |-> <<>>]
TBool == [k |-> "bool", fields |-> <<>>, elem |-> <<>>]
TStruct(fields) == [k |-> "struct", fields |-> fields, elem |-> <<>>]
TSlice(e) == [k |-> "slice", fields |-> <<>>, elem |-> <<e>>]
TPtr(e) == [k |-> "ptr", fields |-> <<>>, elem |-> <<e>>]
Field(name, key, ty) == [name |-> name, key |-> key, ty |-> ty]

GV(k, v) == [k |-> k, v |-> v]
NilPtr == GV("ptr", <<>>)
PtrTo(v) == GV("ptr", <<v>>)

FieldNames(ty) == {ty.fields[i].name : i \in 1..Len(ty.fields)}
FieldOf(ty, name) == ty.fields[CHOOSE i \in 1..Len(ty.fields) : ty.fields[i].name = name]

RECURSIVE Zero(_)
\* The zero value of a type.
Zero(ty) ==
    CASE ty.k = "string" -> GV("string", <<>>)
      [] ty.k = "bool" -> GV("bool", FALSE)
      [] ty.k = "slice" -> GV("slice", <<>>)
      [] ty.k = "ptr" -> NilPtr
      [] ty.k = "struct" ->
            GV("struct", [n \in FieldNames(ty) |-> Zero(FieldOf(ty, n).ty)])

ApiaryTeam ==
    TStruct(<<Field("ID", <<"teamId">>, TString),
              Field("Name", <<"teamName">>, TString),
              Field("URL", <<"teamApisUrl">>, TString)>>)
ApiaryMeResponse ==
    TStruct(<<Field("ID", <<"userId">>, TString),
              Field("Name", <<"userName">>, TString),
              Field("URL", <<"userApisUrl">>, TString),
              Field("Teams", <<"Teams">>, TSlice(ApiaryTeam))>>)
ApiaryApiResponse ==
    TStruct(<<Field("Name", <<"apiName">>, TString),
              Field("DocumentationURL", <<"apiDocumentationUrl">>, TString),
              Field("Subdomain", <<"apiSubdomain">>, TString),
              Field("Private", <<"apiIsPrivate">>, TBool),
              Field("Public", <<"apiIsPublic">>, TBool),
              Field("Team", <<"apiIsTeam">>, TBool),
              Field("Personal", <<"apiIsPersonal">>, TBool)>>)
ApiaryApisResponse ==
    TStruct(<<Field("Apis", <<"apis">>, TSlice(ApiaryApiResponse))>>)
ApiaryFetchResponse ==
    TStruct(<<Field("Error", <<"error">>, TBool),
              Field("Message", <<"message">>, TString),
              Field("Code", <<"code">>, TString)>>)
\* The anonymous struct PublishBlueprint decodes a non-201 body into.
apiaryError ==
    TStruct(<<Field("Error", <<"error">>, TBool),
              Field("Message", <<"message">>, TString)>>)

(***************************************************************************)
(* json.Unmarshal.  A syntax error leaves the target untouched.  A JSON    *)
(* value that does not fit its target is skipped, the rest of the value    *)
(* is still decoded, and the first such mismatch is the error returned.    *)
(***************************************************************************)
SyntaxError == NewError(<<"json: invalid character">>)
UnmarshalTypeError(j, ty) ==
    NewError(<<"json: cannot unmarshal ", j.t, " into Go value of type ", ty.k>>)
FirstErr(e1, e2) == IF e1.nil THEN e2 ELSE e1

RECURSIVE Decode(_, _, _)
RECURSIVE decodeMembers(_, _, _, _, _)
RECURSIVE decodeElems(_, _, _, _, _, _)

Decode(j, ty, cur) ==
    CASE ty.k = "ptr" ->
            IF j.t = "null" THEN [v |-> NilPtr, err |-> NilErr]
            ELSE LET inner == IF cur.v = <<>> THEN Zero(ty.elem[1]) ELSE cur.v[1]
                     r == Decode(j, ty.elem[1], inner)
                 IN  [v |-> PtrTo(r.v), err |-> r.err]
      [] ty.k # "ptr" /\ j.t = "null" ->
            [v |-> IF ty.k = "slice" THEN Zero(ty) ELSE cur, err |-> NilErr]
      [] ty.k # "ptr" /\ j.t = "obj" ->
            IF ty.k = "struct" THEN decodeMembers(j.x, 1, ty, cur, NilErr)
            ELSE [v |-> cur, err |-> UnmarshalTypeError(j, ty)]
      [] ty.k # "ptr" /\ j.t = "arr" ->
            IF ty.k = "slice" THEN decodeElems(j.x, 1, ty.elem[1], cur.v, <<>>, NilErr)
            ELSE [v |-> cur, err |-> UnmarshalTypeError(j, ty)]
      [] ty.k # "ptr" /\ j.t = "str" ->
            IF ty.k = "string" THEN [v |-> GV("string", j.x), err |-> NilErr]
            ELSE [v |-> cur, err |-> UnmarshalTypeError(j, ty)]
      [] ty.k # "ptr" /\ j.t = "bool" ->
            IF ty.k = "bool" THEN [v |-> GV("bool", j.x), err |-> NilErr]
            ELSE [v |-> cur, err |-> UnmarshalTypeError(j, ty)]
      [] ty.k # "ptr" /\ j.t = "num" ->
            [v |-> cur, err |-> UnmarshalTypeError(j, ty)]

decodeMembers(ms, i, ty, cur, err) ==
    IF i > Len(ms) THEN [v |-> cur, err |-> err]
    ELSE LET hits == {f \in 1..Len(ty.fields) : ty.fields[f].key = ms[i].key} IN
         IF hits = {} THEN decodeMembers(ms, i + 1, ty, cur, err)
         ELSE LET fld == ty.fields[CHOOSE f \in hits : TRUE]
                  r == Decode(ms[i].val, fld.ty, cur.v[fld.name])
              IN  decodeMembers(ms, i + 1, ty,
                                GV("struct", [cur.v EXCEPT ![fld.name] = r.v]),
                                FirstErr(err, r.err))

decodeElems(items, i, elemTy, old, acc, err) ==
    IF i > Len(items) THEN [v |-> GV("slice", acc), err |-> err]
    ELSE LET r == Decode(items[i], elemTy,
                         IF i <= Len(old) THEN old[i] ELSE Zero(elemTy))
         IN  decodeElems(items, i + 1, elemTy, old, Append(acc, r.v),
                         FirstErr(err, r.err))

\* json.Unmarshal(data, &target): cur is the target's value before the call.
Unmarshal(data, ty, cur) ==
    IF ~checkValid(data) THEN [v |-> cur, err |-> SyntaxError]
    ELSE Decode(parseValue(data, 1).val, ty, cur)


(***************************************************************************)
(* The transport pipeline: helpers of apiary.go.                           *)
(***************************************************************************)
NoBytes == <<>>       \* a nil or empty []byte
NoResponse == [StatusCode |-> 0, Status |-> <<>>, ContentLength |-> 0,
               Body |-> [bytes |-> <<>>, fail |-> FALSE]]

ReadError == NewError(<<"OMG!">>)
EmptyResponse == NewError(<<"Empty response">>)
TransportError == NewError(<<"Get: Error">>)
InvalidMethod == NewError(<<"net/http: invalid method">>)
InvalidURL == NewError(<<"parse: net/url: invalid control character in URL">>)

\* checkOk, had it accepted 201 as well.
checkOkOrCreated(response) ==
    IF response.StatusCode \notin {StatusOK, StatusCreated}
    THEN NewError(<<"Bad response code: ">> \o response.Status)
    ELSE NilErr

checkOk(response) ==
    IF response.StatusCode # StatusOK
    THEN NewError(<<"Bad response code: ">> \o response.Status)
    ELSE NilErr

\* buf.ReadFrom(response.Body): the bytes the reader yields are counted
\* until it reports the end or fails.
ReadFrom(body) ==
    [n |-> Len(body.bytes),
     bytes |-> body.bytes,
     err |-> IF body.fail THEN ReadError ELSE NilErr]

\* readResponse, had it taken the declared length for the number of bytes read.
readResponseTrustsLength(response) ==
    IF response.ContentLength < 0
    THEN [panic |-> TRUE, data |-> NoBytes, err |-> NilErr]
    ELSE LET rd == ReadFrom(response.Body) IN
         IF ~rd.err.nil THEN [panic |-> FALSE, data |-> NoBytes, err |-> rd.err]
         ELSE IF response.ContentLength = 0
              THEN [panic |-> FALSE, data |-> NoBytes, err |-> EmptyResponse]
         ELSE [panic |-> FALSE, data |-> rd.bytes, err |-> NilErr]

\* readResponse, had it tested the byte count before the read error.
readResponseEmptyFirst(response) ==
    IF response.ContentLength < 0
    THEN [panic |-> TRUE, data |-> NoBytes, err |-> NilErr]
    ELSE LET rd == ReadFrom(response.Body) IN
         IF rd.n = 0 THEN [panic |-> FALSE, data |-> NoBytes, err |-> EmptyResponse]
         ELSE IF ~rd.err.nil THEN [panic |-> FALSE, data |-> NoBytes, err |-> rd.err]
         ELSE [panic |-> FALSE, data |-> rd.bytes, err |-> NilErr]

\* make([]byte, 0, response.ContentLength) panics on a negative capacity;
\* otherwise the declared length is only the initial capacity of the buffer.
readResponse(response) ==
    IF response.ContentLength < 0
    THEN [panic |-> TRUE, data |-> NoBytes, err |-> NilErr]
    ELSE LET rd == ReadFrom(response.Body) IN
         IF ~rd.err.nil THEN [panic |-> FALSE, data |-> NoBytes, err |-> rd.err]
         ELSE IF rd.n = 0 THEN [panic |-> FALSE, data |-> NoBytes, err |-> EmptyResponse]
         ELSE [panic |-> FALSE, data |-> rd.bytes, err |-> NilErr]

bearerToken(token) == <<"bearer ">> \o token

bearerTokenLegacy(token) == <<"Token ">> \o token

\* net/http's validMethod: a non-empty run of token characters.
validMethod(method) ==
    Len(method) > 0 /\ \A i \in 1..Len(method) : method[i] \notin NotTokenBytes

\* net/url rejects a URL holding a control byte.
stringContainsCTLByte(url) == \E i \in 1..Len(url) : url[i] \in CtlBytes

NoRequest == [Method |-> <<>>, URL |-> <<>>, Header |-> <<>>, Body |-> NoBytes]

\* http.NewRequest(method, url, body): an empty method means GET; the
\* method and the URL are validated and no network is touched.
NewRequest(method, url, body) ==
    LET m == IF method = <<>> THEN <<"GET">> ELSE method IN
    IF ~validMethod(m) THEN [err |-> InvalidMethod, req |-> NoRequest]
    ELSE IF stringContainsCTLByte(url) THEN [err |-> InvalidURL, req |-> NoRequest]
    ELSE [err |-> NilErr,
          req |-> [Method |-> m, URL |-> url, Header |-> <<>>, Body |-> body]]

\* request, had it not returned on NewRequest's error.
requestUnchecked(method, path, headers, body) ==
    [err |-> NilErr,
     req |-> [Method |-> method, URL |-> ApiaryAPIURL \o path,
              Header |-> [k \in DOMAIN headers |-> <<headers[k]>>],
              Body |-> body]]

\* The part of request before client.Do: the request is constructed and
\* every entry of headers is added to it.
request(method, path, headers, body) ==
    LET url == ApiaryAPIURL \o path
        nr == NewRequest(method, url, body)
    IN  IF ~nr.err.nil THEN nr
        ELSE [err |-> NilErr,
              req |-> [nr.req EXCEPT !.Header =
                          [k \in DOMAIN headers |-> <<headers[k]>>]]]

\* The arguments the three send helpers pass to request.
\* sendRequest, had it refused an empty token.
sendRequestChecksToken(a, path) ==
    IF a.options.Token = <<>>
    THEN [err |-> NewError(<<"empty token">>), req |-> NoRequest]
    ELSE request(<<"GET">>, path,
                 [k \in {"Authorization"} |-> bearerToken(a.options.Token)],
                 NoBytes)

sendRequest(a, path) ==
    request(<<"GET">>, path,
            [k \in {"Authorization"} |-> bearerToken(a.options.Token)],
            NoBytes)

\* sendLegacyRequest, had it been given the modern header.
sendLegacyRequestModern(a, path) ==
    request(<<"GET">>, path,
            [k \in {"Authorization"} |-> bearerToken(a.options.Token)],
            NoBytes)

sendLegacyRequest(a, path) ==
    request(<<"GET">>, path,
            [k \in {"Authentication"} |-> bearerTokenLegacy(a.options.Token)],
            NoBytes)

\* sendLegacyPostRequest, had it left out the content type.
sendLegacyPostRequestUntyped(a, path, body) ==
    request(<<"POST">>, path,
            [k \in {"Authentication"} |-> bearerTokenLegacy(a.options.Token)],
            body)

sendLegacyPostRequest(a, path, body) ==
    request(<<"POST">>, path,
            [k \in {"Authentication", "Content-Type"} |->
                IF k = "Authentication" THEN bearerTokenLegacy(a.options.Token)
                ELSE <<"application/json; charset=utf-8">>],
            body)


(***************************************************************************)
(* The endpoint operations, from the point where their send helper has     *)
(* returned (data, response, err).  Each yields the operation's named      *)
(* results and the stages it evaluated on the way.                         *)
(***************************************************************************)
Ret(result, err, stages) == [result |-> result, err |-> err, stages |-> stages]

\* Me, had it decoded the body before it looked at the status.
MeDecodesFirst(data, response, err) ==
    LET me == Zero(ApiaryMeResponse) IN
    IF ~err.nil THEN Ret(me, err, <<>>)
    ELSE LET u == Unmarshal(data, ApiaryMeResponse, me) IN
         IF ~u.err.nil THEN Ret(u.v, u.err, <<"Unmarshal">>)
         ELSE LET ok == checkOk(response) IN
              IF ~ok.nil THEN Ret(me, ok, <<"Unmarshal", "checkOk">>)
              ELSE Ret(u.v, NilErr, <<"Unmarshal", "checkOk">>)

Me(data, response, err) ==
    LET me == Zero(ApiaryMeResponse) IN
    IF ~err.nil THEN Ret(me, err, <<>>)
    ELSE LET ok == checkOk(response) IN
         IF ~ok.nil THEN Ret(me, ok, <<"checkOk">>)
         ELSE LET u == Unmarshal(data, ApiaryMeResponse, me)
              IN  Ret(u.v, u.err, <<"checkOk", "Unmarshal">>)

\* The body shared by the three operations that return a pointer.
getPointer(ty, data, response, err) ==
    LET ptr == Zero(TPtr(ty)) IN
    IF ~err.nil THEN Ret(ptr, err, <<>>)
    ELSE LET ok == checkOk(response) IN
         IF ~ok.nil THEN Ret(ptr, ok, <<"checkOk">>)
         ELSE LET u == Unmarshal(data, TPtr(ty), ptr)
              IN  Ret(u.v, u.err, <<"checkOk", "Unmarshal">>)

GetApis(data, response, err) == getPointer(ApiaryApisResponse, data, response, err)

GetTeamApis(data, response, err) == getPointer(ApiaryApisResponse, data, response, err)

FetchBlueprint(data, response, err) == getPointer(ApiaryFetchResponse, data, response, err)

\* PublishBlueprint, had it decoded the envelope whatever the status.
PublishBlueprintAlwaysDecodes(data, response, err) ==
    LET published == GV("bool", FALSE) IN
    IF ~err.nil THEN Ret(published, err, <<>>)
    ELSE LET u == Unmarshal(data, apiaryError, Zero(apiaryError)) IN
         IF ~u.err.nil THEN Ret(published, u.err, <<"Unmarshal">>)
         ELSE IF u.v.v["Error"].v
              THEN Ret(published,
                       NewError(<<"Creation failed: ">> \o u.v.v["Message"].v),
                       <<"Unmarshal">>)
              ELSE Ret(GV("bool", TRUE), NilErr, <<"Unmarshal">>)

\* PublishBlueprint, had it not looked at the envelope's error flag.
PublishBlueprintIgnoresFlag(data, response, err) ==
    LET published == GV("bool", FALSE) IN
    IF ~err.nil THEN Ret(published, err, <<>>)
    ELSE IF response.StatusCode # StatusCreated
         THEN LET u == Unmarshal(data, apiaryError, Zero(apiaryError)) IN
              IF ~u.err.nil THEN Ret(published, u.err, <<"Unmarshal">>)
              ELSE Ret(GV("bool", TRUE), NilErr, <<"Unmarshal">>)
         ELSE Ret(GV("bool", TRUE), NilErr, <<>>)

\* PublishBlueprint, had it accepted the status 201 only.
PublishBlueprintStrict(data, response, err) ==
    LET published == GV("bool", FALSE) IN
    IF ~err.nil THEN Ret(published, err, <<>>)
    ELSE IF response.StatusCode # StatusCreated
         THEN LET u == Unmarshal(data, apiaryError, Zero(apiaryError)) IN
              IF ~u.err.nil THEN Ret(published, u.err, <<"Unmarshal">>)
              ELSE Ret(published,
                       NewError(<<"Creation failed: ">> \o u.v.v["Message"].v),
                       <<"Unmarshal">>)
         ELSE Ret(GV("bool", TRUE), NilErr, <<>>)

PublishBlueprint(data, response, err) ==
    LET published == GV("bool", FALSE) IN
    IF ~err.nil THEN Ret(published, err, <<>>)
    ELSE IF response.StatusCode # StatusCreated
         THEN LET u == Unmarshal(data, apiaryError, Zero(apiaryError)) IN
              IF ~u.err.nil THEN Ret(published, u.err, <<"Unmarshal">>)
              ELSE IF u.v.v["Error"].v
                   THEN Ret(published,
                            NewError(<<"Creation failed: ">> \o u.v.v["Message"].v),
                            <<"Unmarshal">>)
                   ELSE Ret(GV("bool", TRUE), NilErr, <<"Unmarshal">>)
         ELSE Ret(GV("bool", TRUE), NilErr, <<>>)

\* A direct call of request returns the bytes read.
requestDirect(data, response, err) == Ret(GV("bytes", data), err, <<>>)

Ops == {"Me", "GetApis", "GetTeamApis", "FetchBlueprint", "PublishBlueprint", "request"}
GetOps == {"Me", "GetApis", "GetTeamApis", "FetchBlueprint"}

\* The operation op, continued after its send helper returned.
Continue(op, data, response, err) ==
    CASE op = "Me" -> Me(data, response, err)
      [] op = "GetApis" -> GetApis(data, response, err)
      [] op = "GetTeamApis" -> GetTeamApis(data, response, err)
      [] op = "FetchBlueprint" -> FetchBlueprint(data, response, err)
      [] op = "PublishBlueprint" -> PublishBlueprint(data, response, err)
      [] op = "request" -> requestDirect(data, response, err)

(***************************************************************************)
(* Inputs.                                                                 *)
(***************************************************************************)
Tokens == {<<>>, <<"t0k3n">>}
Names == {<<"apiarycli">>, <<"bad", LF, "name">>, <<>>}
Contents == {<<"FORMAT: 1A", LF, "# Example API">>, <<"{}">>, <<"bin", BAD, QUOTE>>}
Methods == {<<"GET">>, <<"POST">>, <<SEMI, SEMI, SEMI>>, <<>>}
Paths == {<<>>, <<LF>>}

Statuses == {StatusOK, StatusCreated, StatusNotFound}
StatusLine(code) ==
    CASE code = StatusOK -> <<"200 OK">>
      [] code = StatusCreated -> <<"201 Created">>
      [] code = StatusNotFound -> <<"404 Not Found">>

Obj1(k1, v1) == <<LBRACE, S(<<k1>>), COLON>> \o v1 \o <<RBRACE>>
Obj2(k1, v1, k2, v2) ==
    <<LBRACE, S(<<k1>>), COLON>> \o v1 \o <<COMMA, S(<<k2>>), COLON>> \o v2 \o <<RBRACE>>

\* The body of a blueprint-fetch response whose "code" member is the one
\* PublishBlueprint sent for content.
FetchBody(content) ==
    <<LBRACE, S(<<"error">>), COLON, JFALSE, COMMA,
      S(<<"message">>), COLON, S(<<>>), COMMA>>
    \o SubSeq(Marshal(content), 2, 4) \o <<RBRACE>>

Bodies ==
    { <<>>,                                             \* no bytes
      <<LBRACE, WORD, RBRACE>>,                         \* {I_AM_INVALID_JSON}
      <<JNULLTOK>>,                                     \* null
      <<LBRACE, RBRACE>>,                               \* {}
      <<LBRACK, RBRACK>>,                               \* []
      Obj2("error", <<JTRUE>>, "message", <<S(<<"bad name">>)>>),
      Obj1("error", <<JTRUE>>),
      Obj1("error", <<JFALSE>>),
      Obj1("message", <<S(<<"msg">>)>>),
      Obj2("error", <<S(<<"yes">>)>>, "message", <<S(<<"msg">>)>>),
      Obj2("userId", <<JNUM>>, "userName", <<S(<<"bob">>)>>),
      Obj2("userId", <<S(<<"u1">>)>>, "Teams",
           <<LBRACK>> \o Obj1("teamId", <<S(<<"t1">>)>>) \o <<RBRACK>>),
      Obj1("apis", <<LBRACK>> \o Obj2("apiName", <<S(<<"a1">>)>>,
                                      "apiIsPrivate", <<JTRUE>>) \o <<RBRACK>>),
      Obj1("apis", <<JNUM>>),
      Obj2("error", <<JFALSE>>, "code", <<S(<<"FORMAT: 1A", EscN, "# Example API">>)>>) }
    \cup {FetchBody(content) : content \in Contents}

\* What a response body yields when read: its bytes, then the end or a failure.
Readers ==
    {[bytes |-> b, fail |-> FALSE] : b \in Bodies}
    \cup {[bytes |-> <<>>, fail |-> TRUE], [bytes |-> <<LBRACE>>, fail |-> TRUE]}

Responses ==
    {[StatusCode |-> sc, Status |-> StatusLine(sc), ContentLength |-> cl, Body |-> rd] :
        sc \in Statuses, cl \in -1..MaxContentLength, rd \in Readers}


\* Every argument and every response of the model.
AllInputs ==
    [names |-> Names, contents |-> Contents, methods |-> Methods,
     paths |-> Paths, responses |-> Responses]

(***************************************************************************)
(* State.                                                                  *)
(***************************************************************************)
VARIABLES
    apiary,   \* the client: options (the token) and the http.Client handle
    callers,  \* the goroutines that call operations on the client
    inputs,   \* the arguments callers pass and the responses the service gives
    pc,       \* per caller: "idle", "do", "read", "done" or "panic"
    call,     \* per caller: the operation called and its arguments
    req,      \* per caller: the http.Request handed to client.Do
    res,      \* per caller: the http.Response client.Do returned
    out,      \* per caller: the results the operation returned
    trace     \* per caller: the stages the call has evaluated, in order

vars == <<apiary, callers, inputs, pc, call, req, res, out, trace>>

HasStage(c, st) == \E i \in 1..Len(trace[c]) : trace[c][i] = st
CountStage(c, st) == Cardinality({i \in 1..Len(trace[c]) : trace[c][i] = st})

NewApiary(opts) == [options |-> opts, client |-> "http.Client"]

NoCall == [op |-> "none", method |-> <<>>, arg |-> <<>>, content |-> <<>>]
NoOut == [result |-> GV("none", <<>>), err |-> NilErr]

Init ==
    /\ apiary \in {NewApiary([Token |-> t]) : t \in Tokens}
    /\ callers = {1}
    /\ inputs = AllInputs
    /\ pc = [c \in Callers |-> "idle"]
    /\ call = [c \in Callers |-> NoCall]
    /\ req = [c \in Callers |-> NoRequest]
    /\ res = [c \in Callers |-> NoResponse]
    /\ out = [c \in Callers |-> NoOut]
    /\ trace = [c \in Callers |-> <<>>]

\* Caller c enters an operation: built is what the operation's send helper
\* got from constructing the request.  A construction error makes the
\* helper and the operation return at once.
Start(c, cl, built) ==
    /\ pc[c] = "idle"
    /\ call' = [call EXCEPT ![c] = cl]
    /\ res' = res
    /\ UNCHANGED <<apiary, callers, inputs>>
    /\ IF built.err.nil
       THEN /\ pc' = [pc EXCEPT ![c] = "do"]
            /\ req' = [req EXCEPT ![c] = built.req]
            /\ out' = out
            /\ trace' = [trace EXCEPT ![c] = <<"NewRequest">>]
       ELSE LET fin == Continue(cl.op, NoBytes, NoResponse, built.err) IN
            /\ pc' = [pc EXCEPT ![c] = "done"]
            /\ req' = req
            /\ out' = [out EXCEPT ![c] = [result |-> fin.result, err |-> fin.err]]
            /\ trace' = [trace EXCEPT ![c] = <<"NewRequest">> \o fin.stages]

CallMe(c) ==
    Start(c, [NoCall EXCEPT !.op = "Me"], sendRequest(apiary, ApiaryActionMe))

CallGetApis(c) ==
    Start(c, [NoCall EXCEPT !.op = "GetApis"], sendRequest(apiary, ApiaryActionGetApis))

CallGetTeamApis(c) ==
    \E team \in inputs.names :
        Start(c, [NoCall EXCEPT !.op = "GetTeamApis", !.arg = team],
              sendRequest(apiary, Sprintf(ApiaryActionGetTeamApis, team)))

CallFetchBlueprint(c) ==
    \E name \in inputs.names :
        Start(c, [NoCall EXCEPT !.op = "FetchBlueprint", !.arg = name],
              sendLegacyRequest(apiary, Sprintf(ApiaryActionFetchBlueprint, name)))

CallPublishBlueprint(c) ==
    \E name \in inputs.names, content \in inputs.contents :
        Start(c, [NoCall EXCEPT !.op = "PublishBlueprint", !.arg = name, !.content = content],
              sendLegacyPostRequest(apiary, Sprintf(ApiaryActionPublishBlueprint, name),
                                    Marshal(content)))

\* The package's tests call request directly, with any method and no headers.
CallRequest(c) ==
    \E method \in inputs.methods, path \in inputs.paths :
        Start(c, [NoCall EXCEPT !.op = "request", !.method = method, !.arg = path],
              request(method, path, <<>>, NoBytes))

\* client.Do, had a failure been answered with a second attempt.
ClientDoRetry(c) ==
    /\ pc[c] = "do"
    /\ UNCHANGED <<apiary, callers, inputs, call, req>>
    /\ \/ /\ CountStage(c, "Do") < 2
          /\ pc' = pc
          /\ res' = res
          /\ out' = out
          /\ trace' = [trace EXCEPT ![c] = Append(trace[c], "Do")]
       \/ \E r \in inputs.responses :
          /\ pc' = [pc EXCEPT ![c] = "read"]
          /\ res' = [res EXCEPT ![c] = r]
          /\ out' = out
          /\ trace' = [trace EXCEPT ![c] = Append(trace[c], "Do")]

\* res, err = a.client.Do(req): the one place the transport is invoked.  It
\* fails, and the operation returns the failure, or it yields a response.
ClientDo(c) ==
    /\ pc[c] = "do"
    /\ UNCHANGED <<apiary, callers, inputs, call, req>>
    /\ \/ LET fin == Continue(call[c].op, NoBytes, NoResponse, TransportError) IN
          /\ pc' = [pc EXCEPT ![c] = "done"]
          /\ res' = res
          /\ out' = [out EXCEPT ![c] = [result |-> fin.result, err |-> fin.err]]
          /\ trace' = [trace EXCEPT ![c] = trace[c] \o <<"Do">> \o fin.stages]
       \/ \E r \in inputs.responses :
          /\ pc' = [pc EXCEPT ![c] = "read"]
          /\ res' = [res EXCEPT ![c] = r]
          /\ out' = out
          /\ trace' = [trace EXCEPT ![c] = Append(trace[c], "Do")]

\* readResponse and the rest of the operation, had the response been kept in
\* a field of the client that every call overwrites.
ReadBodyShared(c) ==
    /\ pc[c] = "read"
    /\ UNCHANGED <<apiary, callers, inputs, call, req, res>>
    /\ \E d \in callers :
       /\ res[d] # NoResponse
       /\ LET rr == readResponse(res[d]) IN
          IF rr.panic
          THEN /\ pc' = [pc EXCEPT ![c] = "panic"]
               /\ out' = out
               /\ trace' = [trace EXCEPT ![c] = Append(trace[c], "readResponse")]
          ELSE LET fin == Continue(call[c].op, rr.data, res[d], rr.err) IN
               /\ pc' = [pc EXCEPT ![c] = "done"]
               /\ out' = [out EXCEPT ![c] = [result |-> fin.result, err |-> fin.err]]
               /\ trace' = [trace EXCEPT ![c] = trace[c] \o <<"readResponse">> \o fin.stages]

\* response, err = readResponse(res), then the rest of the operation.
ReadBody(c) ==
    /\ pc[c] = "read"
    /\ UNCHANGED <<apiary, callers, inputs, call, req, res>>
    /\ LET rr == readResponse(res[c]) IN
       IF rr.panic
       THEN /\ pc' = [pc EXCEPT ![c] = "panic"]
            /\ out' = out
            /\ trace' = [trace EXCEPT ![c] = Append(trace[c], "readResponse")]
       ELSE LET fin == Continue(call[c].op, rr.data, res[c], rr.err) IN
            /\ pc' = [pc EXCEPT ![c] = "done"]
            /\ out' = [out EXCEPT ![c] = [result |-> fin.result, err |-> fin.err]]
            /\ trace' = [trace EXCEPT ![c] = trace[c] \o <<"readResponse">> \o fin.stages]

\* The caller has taken the results and may call again.
Return(c) ==
    /\ pc[c] = "done"
    /\ pc' = [pc EXCEPT ![c] = "idle"]
    /\ call' = [call EXCEPT ![c] = NoCall]
    /\ req' = [req EXCEPT ![c] = NoRequest]
    /\ res' = [res EXCEPT ![c] = NoResponse]
    /\ out' = [out EXCEPT ![c] = NoOut]
    /\ trace' = [trace EXCEPT ![c] = <<>>]
    /\ UNCHANGED <<apiary, callers, inputs>>

Next ==
    \E c \in callers :
        \/ CallMe(c)
        \/ CallGetApis(c)
        \/ CallGetTeamApis(c)
        \/ CallFetchBlueprint(c)
        \/ CallPublishBlueprint(c)
        \/ CallRequest(c)
        \/ ClientDo(c)
        \/ ReadBody(c)
        \/ Return(c)

Spec == Init /\ [][Next]_vars


(***************************************************************************)
(* The same client used by every caller at once.  The calls interleave     *)
(* step by step; to keep the interleavings countable the callers draw      *)
(* from a few arguments and the service from a few responses.              *)
(***************************************************************************)
Response(sc, cl, bytes) ==
    [StatusCode |-> sc, Status |-> StatusLine(sc), ContentLength |-> cl,
     Body |-> [bytes |-> bytes, fail |-> FALSE]]

FewInputs ==
    [names |-> {<<"apiarycli">>},
     contents |-> {<<"{}">>},
     methods |-> {<<"GET">>},
     paths |-> {<<>>},
     responses |-> {Response(StatusOK, 2, Obj1("error", <<JFALSE>>)),
                    Response(StatusNotFound, 2, <<LBRACE, RBRACE>>),
                    Response(StatusOK, 0, <<>>)}]

InitConcurrent ==
    /\ apiary = NewApiary([Token |-> <<"t0k3n">>])
    /\ callers = Callers
    /\ inputs = FewInputs
    /\ pc = [c \in Callers |-> "idle"]
    /\ call = [c \in Callers |-> NoCall]
    /\ req = [c \in Callers |-> NoRequest]
    /\ res = [c \in Callers |-> NoResponse]
    /\ out = [c \in Callers |-> NoOut]
    /\ trace = [c \in Callers |-> <<>>]

SpecConcurrent == InitConcurrent /\ [][Next]_vars

(***************************************************************************)
(* Vocabulary of the properties.                                           *)
(***************************************************************************)

\* The operation of caller c has returned.
Returned(c) == pc[c] = "done"
\* readResponse read the body of c's response and the operation returned.
BodyRead(c) == Returned(c) /\ HasStage(c, "readResponse")
\* The body was read to the end, without a failure, and held bytes.
BodyReadInFull(c) ==
    BodyRead(c) /\ ~res[c].Body.fail /\ res[c].Body.bytes # <<>>

\* The zero value of each operation's result.
ZeroResult(op) ==
    CASE op = "Me" -> Zero(ApiaryMeResponse)
      [] op \in {"GetApis", "GetTeamApis", "FetchBlueprint"} -> NilPtr
      [] op = "PublishBlueprint" -> GV("bool", FALSE)
      [] op = "request" -> GV("bytes", NoBytes)

BadResponseCode(response) == NewError(<<"Bad response code: ">> \o response.Status)

(***************************************************************************)
(* C1.  When the body of a response is read to the end without a read      *)
(* error and yields zero bytes, the call returns the error "Empty          *)
(* response" and no bytes, whatever the declared content length and the    *)
(* status code.                                                            *)
(***************************************************************************)
C1_EmptyBodyIsEmptyResponse ==
    \A c \in Callers :
        (BodyRead(c) /\ ~res[c].Body.fail /\ res[c].Body.bytes = <<>>)
        => /\ out[c].err = EmptyResponse
           /\ out[c].result = ZeroResult(call[c].op)

\* request returned "Empty response" for a 201 response that declared two
\* bytes and had none.
C1_Witness ==
    \E c \in Callers :
        /\ BodyRead(c) /\ call[c].op = "request"
        /\ res[c].StatusCode = StatusCreated /\ res[c].ContentLength = 2
        /\ ~res[c].Body.fail /\ res[c].Body.bytes = <<>>
        /\ out[c].err = EmptyResponse /\ out[c].result = GV("bytes", NoBytes)

(***************************************************************************)
(* C2.  When the body reader reports a failure, even before any byte, the  *)
(* call returns the reader's error, not "Empty response", and no bytes.    *)
(***************************************************************************)
C2_ReadFailureSurfaces ==
    \A c \in Callers :
        (BodyRead(c) /\ res[c].Body.fail)
        => /\ out[c].err = ReadError
           /\ out[c].err # EmptyResponse
           /\ out[c].result = ZeroResult(call[c].op)

\* request returned the reader's error for a body that failed at its first byte.
C2_Witness ==
    \E c \in Callers :
        /\ BodyRead(c) /\ call[c].op = "request"
        /\ res[c].Body.fail /\ res[c].Body.bytes = <<>>
        /\ out[c].err = ReadError

(***************************************************************************)
(* C3.  A call whose method or URL is not a valid request returns a        *)
(* non-nil error at once: it never reaches client.Do, so the transport is  *)
(* not invoked in that call.                                               *)
(***************************************************************************)
\* The URL and method caller c's call asks for.
CallPath(c) ==
    CASE call[c].op = "Me" -> ApiaryActionMe
      [] call[c].op = "GetApis" -> ApiaryActionGetApis
      [] call[c].op = "GetTeamApis" -> <<"me/teams/">> \o call[c].arg \o <<"/apis">>
      [] call[c].op = "FetchBlueprint" -> <<"blueprint/get/">> \o call[c].arg
      [] call[c].op = "PublishBlueprint" -> <<"blueprint/publish/">> \o call[c].arg
      [] call[c].op = "request" -> call[c].arg
CallMethod(c) ==
    CASE call[c].op = "PublishBlueprint" -> <<"POST">>
      [] call[c].op = "request" -> call[c].method
      [] OTHER -> <<"GET">>
InvalidCall(c) ==
    \/ \E i \in 1..Len(CallMethod(c)) : CallMethod(c)[i] \in {SEMI, LF, QUOTE, BAD}
    \/ \E i \in 1..Len(CallPath(c)) : CallPath(c)[i] = LF

C3_ConstructionErrorBeforeNetwork ==
    \A c \in Callers :
        (call[c].op # "none" /\ InvalidCall(c))
        => /\ Returned(c)
           /\ ~out[c].err.nil
           /\ ~HasStage(c, "Do")
           /\ req[c] = NoRequest

\* request(";;;", ...) returned an error and client.Do was not reached.
C3_Witness ==
    \E c \in Callers :
        /\ call[c].op = "request" /\ call[c].method = <<SEMI, SEMI, SEMI>>
        /\ Returned(c) /\ out[c].err = InvalidMethod /\ ~HasStage(c, "Do")

(***************************************************************************)
(* C4.  One call of an operation invokes the transport at most once, and   *)
(* when that invocation fails the operation returns a non-nil error        *)
(* without a second request.                                               *)
(***************************************************************************)
\* client.Do failed in c's call: it was invoked and no body was ever read.
TransportFailed(c) ==
    Returned(c) /\ HasStage(c, "Do") /\ ~HasStage(c, "readResponse")

C4_OneTransportCallNoRetry ==
    \A c \in Callers :
        /\ CountStage(c, "Do") <= 1
        /\ TransportFailed(c)
           => /\ out[c].err = TransportError
              /\ out[c].result = ZeroResult(call[c].op)
              /\ trace[c][Len(trace[c])] = "Do"

\* PublishBlueprint returned the transport's error after one client.Do.
C4_Witness ==
    \E c \in Callers :
        /\ call[c].op = "PublishBlueprint" /\ TransportFailed(c)
        /\ CountStage(c, "Do") = 1 /\ out[c].err = TransportError


(***************************************************************************)
(* C5.  In the four GET operations a response whose status is not 200      *)
(* yields "Bad response code: <status line>" and a zero result.            *)
(***************************************************************************)
\* As first stated, for every response whose status is not 200.
C5_AnyNon200IsBadResponseCode ==
    \A c \in Callers :
        (BodyRead(c) /\ call[c].op \in GetOps /\ res[c].StatusCode # StatusOK)
        => /\ out[c].err = BadResponseCode(res[c])
           /\ out[c].result = ZeroResult(call[c].op)

\* C5, amended: the status error is returned when the body was read to the
\* end without a failure and held at least one byte; an empty body or a
\* failed read is reported first ("Empty response", the reader's error).
\* The result is the zero value, and the error non-nil, in every case.
C5_Non200WithBodyIsBadResponseCode ==
    \A c \in Callers :
        (BodyRead(c) /\ call[c].op \in GetOps /\ res[c].StatusCode # StatusOK)
        => /\ out[c].result = ZeroResult(call[c].op)
           /\ BodyReadInFull(c) => out[c].err = BadResponseCode(res[c])
           /\ ~BodyReadInFull(c) =>
                out[c].err = (IF res[c].Body.fail THEN ReadError ELSE EmptyResponse)

\* FetchBlueprint returned the status error and a nil pointer for a 404
\* response whose body is {}.
C5_Witness ==
    \E c \in Callers :
        /\ BodyReadInFull(c) /\ call[c].op = "FetchBlueprint"
        /\ res[c].StatusCode = StatusNotFound
        /\ res[c].Body.bytes = <<LBRACE, RBRACE>>
        /\ out[c].err = NewError(<<"Bad response code: ", "404 Not Found">>)
        /\ out[c].result = NilPtr

(***************************************************************************)
(* C6.  PublishBlueprint reports published = true and a nil error for a    *)
(* response with status 201.                                               *)
(***************************************************************************)
\* As first stated, for every response with status 201.
C6_Any201IsPublished ==
    \A c \in Callers :
        (BodyRead(c) /\ call[c].op = "PublishBlueprint"
            /\ res[c].StatusCode = StatusCreated)
        => /\ out[c].result = GV("bool", TRUE)
           /\ out[c].err.nil

\* C6, amended: for every response with status 201 whose body was read to
\* the end without a failure and held at least one byte; the body's content
\* is not looked at.
C6_201WithBodyIsPublished ==
    \A c \in Callers :
        (BodyReadInFull(c) /\ call[c].op = "PublishBlueprint"
            /\ res[c].StatusCode = StatusCreated)
        => /\ out[c].result = GV("bool", TRUE)
           /\ out[c].err.nil
           /\ ~HasStage(c, "Unmarshal")

\* PublishBlueprint reported success for a 201 response whose body is not JSON.
C6_Witness ==
    \E c \in Callers :
        /\ BodyReadInFull(c) /\ call[c].op = "PublishBlueprint"
        /\ res[c].StatusCode = StatusCreated
        /\ res[c].Body.bytes = <<LBRACE, WORD, RBRACE>>
        /\ out[c].result = GV("bool", TRUE) /\ out[c].err.nil

(***************************************************************************)
(* C7.  PublishBlueprint, for a response with a status other than 201      *)
(* whose body decodes as an envelope with error = true, returns            *)
(* published = false and the error "Creation failed: " + message.          *)
(***************************************************************************)
\* The envelope the body of c's response decodes to.
Envelope(c) == Unmarshal(res[c].Body.bytes, apiaryError, Zero(apiaryError))
EnvelopeDecodes(c) == BodyReadInFull(c) /\ Envelope(c).err.nil
EnvelopeError(c) == Envelope(c).v.v["Error"].v
EnvelopeMessage(c) == Envelope(c).v.v["Message"].v

C7_RejectedPublish ==
    \A c \in Callers :
        (call[c].op = "PublishBlueprint" /\ res[c].StatusCode # StatusCreated
            /\ EnvelopeDecodes(c) /\ EnvelopeError(c))
        => /\ out[c].result = GV("bool", FALSE)
           /\ out[c].err = NewError(<<"Creation failed: ">> \o EnvelopeMessage(c))

\* PublishBlueprint failed with "Creation failed: bad name" on a 404
\* response with body {"error":true,"message":"bad name"}.
C7_Witness ==
    \E c \in Callers :
        /\ call[c].op = "PublishBlueprint" /\ BodyReadInFull(c)
        /\ res[c].StatusCode = StatusNotFound
        /\ res[c].Body.bytes = Obj2("error", <<JTRUE>>, "message", <<S(<<"bad name">>)>>)
        /\ out[c].result = GV("bool", FALSE)
        /\ out[c].err = NewError(<<"Creation failed: ", "bad name">>)

(***************************************************************************)
(* C8.  PublishBlueprint, for a response with a status other than 201      *)
(* whose non-empty body decodes as an envelope with error = false or no    *)
(* error field, returns published = true and a nil error.                  *)
(***************************************************************************)
C8_TolerantPublish ==
    \A c \in Callers :
        (call[c].op = "PublishBlueprint" /\ res[c].StatusCode # StatusCreated
            /\ EnvelopeDecodes(c) /\ ~EnvelopeError(c))
        => /\ out[c].result = GV("bool", TRUE)
           /\ out[c].err.nil

\* PublishBlueprint reported success on a 200 response with body
\* {"message":"msg"}, which has no error field.
C8_Witness ==
    \E c \in Callers :
        /\ call[c].op = "PublishBlueprint" /\ BodyReadInFull(c)
        /\ res[c].StatusCode = StatusOK
        /\ res[c].Body.bytes = Obj1("message", <<S(<<"msg">>)>>)
        /\ out[c].result = GV("bool", TRUE) /\ out[c].err.nil

(***************************************************************************)
(* C9.  In every operation that decodes the body, a body that does not     *)
(* parse as JSON of the expected shape yields a non-nil error and a zero   *)
(* result, no field of it populated.                                       *)
(***************************************************************************)
\* The type each operation decodes the body into.
DecodeTarget(op) ==
    CASE op = "Me" -> ApiaryMeResponse
      [] op \in {"GetApis", "GetTeamApis"} -> TPtr(ApiaryApisResponse)
      [] op = "FetchBlueprint" -> TPtr(ApiaryFetchResponse)
      [] op = "PublishBlueprint" -> apiaryError
\* The operation of c decoded the body and the body did not fit.
DecodeFailed(c) ==
    /\ Returned(c) /\ HasStage(c, "Unmarshal")
    /\ ~Unmarshal(res[c].Body.bytes, DecodeTarget(call[c].op),
                  Zero(DecodeTarget(call[c].op))).err.nil

C9_DecodeErrorZeroResult ==
    \A c \in Callers :
        DecodeFailed(c)
        => /\ ~out[c].err.nil
           /\ out[c].result = ZeroResult(call[c].op)

(***************************************************************************)
(* C10.  The requests of Me, GetApis and GetTeamApis carry the header      *)
(* Authorization: "bearer " + token and no Authentication header; those    *)
(* of FetchBlueprint and PublishBlueprint carry Authentication:            *)
(* "Token " + token and no Authorization header.                           *)
(***************************************************************************)
ModernOps == {"Me", "GetApis", "GetTeamApis"}
LegacyOps == {"FetchBlueprint", "PublishBlueprint"}

C10_SchemePerEndpoint ==
    \A c \in Callers :
        req[c] # NoRequest =>
            /\ call[c].op \in ModernOps =>
                /\ "Authorization" \in DOMAIN req[c].Header
                /\ req[c].Header["Authorization"] = <<<<"bearer ">> \o apiary.options.Token>>
                /\ "Authentication" \notin DOMAIN req[c].Header
            /\ call[c].op \in LegacyOps =>
                /\ "Authentication" \in DOMAIN req[c].Header
                /\ req[c].Header["Authentication"] = <<<<"Token ">> \o apiary.options.Token>>
                /\ "Authorization" \notin DOMAIN req[c].Header

\* client.Do was handed a FetchBlueprint request with the legacy header
\* built from a non-empty token.
C10_Witness ==
    \E c \in Callers :
        /\ call[c].op = "FetchBlueprint" /\ HasStage(c, "Do")
        /\ apiary.options.Token = <<"t0k3n">>
        /\ req[c].Header["Authentication"] = <<<<"Token ", "t0k3n">>>>


(***************************************************************************)
(* C11.  Whatever length the response declares (smaller than, equal to or  *)
(* larger than the body, or negative for an unknown length), the call ends *)
(* by returning all bytes of the body or an error: it never panics, and    *)
(* the declared length neither truncates nor pads the bytes.               *)
(***************************************************************************)
C11_NoPanicAllBytes ==
    \A c \in Callers :
        /\ pc[c] # "panic"
        /\ (BodyRead(c) /\ call[c].op = "request" /\ out[c].err.nil)
           => out[c].result = GV("bytes", res[c].Body.bytes)

(***************************************************************************)
(* C12.  An operation returns a nil error only if the status is its        *)
(* success code (200, or 201 for PublishBlueprint) and the body decoded;   *)
(* every other outcome is a non-nil error with a zero result.              *)
(***************************************************************************)
FiveOps == GetOps \cup {"PublishBlueprint"}
SuccessCode(op) == IF op = "PublishBlueprint" THEN StatusCreated ELSE StatusOK

\* The body of c's response, decoded apart from the operation.
BodyDecodes(c) ==
    Unmarshal(res[c].Body.bytes, DecodeTarget(call[c].op),
              Zero(DecodeTarget(call[c].op))).err.nil

C12_NoPartialSuccess ==
    \A c \in Callers :
        (Returned(c) /\ call[c].op \in FiveOps)
        => /\ out[c].err.nil =>
                /\ BodyReadInFull(c)
                /\ res[c].StatusCode = SuccessCode(call[c].op)
                /\ call[c].op \in GetOps => BodyDecodes(c)
           /\ ~out[c].err.nil => out[c].result = ZeroResult(call[c].op)

(***************************************************************************)
(* C13.  With an empty token every operation still builds its request and  *)
(* hands it to the transport; no error is produced locally on account of   *)
(* the token, and the call fails only by what the service answers.         *)
(***************************************************************************)
C13_EmptyTokenIsSent ==
    \A c \in Callers :
        (apiary.options.Token = <<>> /\ call[c].op \in FiveOps /\ ~InvalidCall(c))
        => /\ pc[c] # "idle"
           /\ req[c] # NoRequest
           /\ Returned(c) => HasStage(c, "Do")
           /\ (BodyReadInFull(c) /\ call[c].op \in GetOps
                    /\ res[c].StatusCode # StatusOK)
              => out[c].err = BadResponseCode(res[c])
           /\ (BodyReadInFull(c) /\ call[c].op \in GetOps
                    /\ res[c].StatusCode = StatusOK /\ BodyDecodes(c))
              => out[c].err.nil

\* Me, on a client with an empty token, sent "bearer " and returned the
\* status error for a 404 response.
C13_Witness ==
    \E c \in Callers :
        /\ apiary = NewApiary([Token |-> <<>>])
        /\ call[c].op = "Me" /\ BodyReadInFull(c) /\ HasStage(c, "Do")
        /\ req[c].Header["Authorization"] = <<<<"bearer ">>>>
        /\ res[c].StatusCode = StatusNotFound
        /\ out[c].err = NewError(<<"Bad response code: ", "404 Not Found">>)


(***************************************************************************)
(* C14.  However the calls of concurrent callers interleave, the client    *)
(* (token and transport handle) is never modified after NewApiary, a step  *)
(* of one call leaves every other call untouched, and what a call sends    *)
(* and returns follows from its own arguments and its own response.        *)
(***************************************************************************)
\* What c's call returns, computed from its own arguments and response.
OwnOutcome(c) ==
    LET rr == readResponse(res[c])
        fin == Continue(call[c].op, rr.data, res[c], rr.err)
    IN  [result |-> fin.result, err |-> fin.err]

CallIsItsOwn(c) ==
    /\ req[c] # NoRequest =>
        /\ req[c].URL = ApiaryAPIURL \o CallPath(c)
        /\ req[c].Method = CallMethod(c)
        /\ req[c].Body = (IF call[c].op = "PublishBlueprint"
                          THEN Marshal(call[c].content) ELSE NoBytes)
    /\ BodyRead(c) => out[c] = OwnOutcome(c)
    /\ TransportFailed(c) => out[c].err = TransportError

\* The step leaves the calls of all callers but one as they were.
OneCallSteps ==
    \E c \in Callers : \A d \in Callers \ {c} :
        /\ pc'[d] = pc[d] /\ call'[d] = call[d] /\ req'[d] = req[d]
        /\ res'[d] = res[d] /\ out'[d] = out[d] /\ trace'[d] = trace[d]

C14_CallsAreIndependent ==
    /\ [](\A c \in Callers : CallIsItsOwn(c))
    /\ [][apiary' = apiary /\ OneCallSteps]_vars

\* Two FetchBlueprint calls overlap: one has returned a result for its 200
\* response while the other is still to read the body of its 404 response.
C14_Witness ==
    \E c, d \in Callers :
        /\ c # d
        /\ call[c].op = "FetchBlueprint" /\ call[d].op = "FetchBlueprint"
        /\ Returned(c) /\ res[c].StatusCode = StatusOK /\ out[c].err.nil
        /\ pc[d] = "read" /\ res[d].StatusCode = StatusNotFound


(***************************************************************************)
(* C15.  Each operation sends the method and URL of the endpoint table,    *)
(* the team or name inserted as given; PublishBlueprint posts, with        *)
(* Content-Type "application/json; charset=utf-8", a JSON object whose     *)
(* single member "code" holds the content.                                 *)
(***************************************************************************)
\* Method and URL of c's request are those of the endpoint table.
EndpointOf(c) ==
    /\ req[c].Method = (IF call[c].op = "PublishBlueprint" THEN <<"POST">> ELSE <<"GET">>)
    /\ req[c].URL = <<"https://api.apiary.io/">> \o
        (CASE call[c].op = "Me" -> <<"me">>
           [] call[c].op = "GetApis" -> <<"me/apis">>
           [] call[c].op = "GetTeamApis" -> <<"me/teams/">> \o call[c].arg \o <<"/apis">>
           [] call[c].op = "FetchBlueprint" -> <<"blueprint/get/">> \o call[c].arg
           [] call[c].op = "PublishBlueprint" -> <<"blueprint/publish/">> \o call[c].arg)
    /\ call[c].op # "PublishBlueprint" =>
        /\ req[c].Body = NoBytes
        /\ "Content-Type" \notin DOMAIN req[c].Header
    /\ call[c].op = "PublishBlueprint" =>
        /\ "Content-Type" \in DOMAIN req[c].Header
        /\ req[c].Header["Content-Type"] = <<<<"application/json; charset=utf-8">>>>

\* The request body is a JSON object with the single member "code": text.
BodyHoldsCode(c, text) ==
    /\ checkValid(req[c].Body)
    /\ parseValue(req[c].Body, 1).val =
            JV("obj", <<[key |-> <<"code">>, val |-> JV("str", text)]>>)

\* As first stated: the member holds the content itself.
C15_EndpointTableExactBody ==
    \A c \in Callers :
        (req[c] # NoRequest /\ call[c].op \in FiveOps)
        => /\ EndpointOf(c)
           /\ call[c].op = "PublishBlueprint" => BodyHoldsCode(c, call[c].content)

\* The text a Go string is turned into when it is written as JSON: a byte
\* that is not valid UTF-8 reads back as U+FFFD.
ToValidUTF8(text) ==
    [i \in 1..Len(text) |-> IF text[i] = BAD THEN FFFD ELSE text[i]]

\* C15, amended: the member "code" holds the content with every byte that
\* is not valid UTF-8 replaced by U+FFFD (the content itself when it is
\* valid UTF-8); method, URL and Content-Type are as stated.
C15_EndpointTable ==
    \A c \in Callers :
        (req[c] # NoRequest /\ call[c].op \in FiveOps)
        => /\ EndpointOf(c)
           /\ call[c].op = "PublishBlueprint" =>
                BodyHoldsCode(c, ToValidUTF8(call[c].content))

\* client.Do was handed PublishBlueprint("apiarycli", two lines of text).
C15_Witness ==
    \E c \in Callers :
        /\ call[c].op = "PublishBlueprint" /\ HasStage(c, "Do")
        /\ call[c].content = <<"FORMAT: 1A", LF, "# Example API">>
        /\ req[c].Method = <<"POST">>
        /\ req[c].URL = <<"https://api.apiary.io/", "blueprint/publish/", "apiarycli">>
        /\ req[c].Body = <<LBRACE, S(<<"code">>), COLON,
                           S(<<"FORMAT: 1A", EscN, "# Example API">>), RBRACE>>

(***************************************************************************)
(* C16.  Round trip: when a FetchBlueprint response with status 200        *)
(* carries the "code" member PublishBlueprint encoded for a blueprint      *)
(* text, the Code of the fetched result is that text.                      *)
(***************************************************************************)
\* c's FetchBlueprint returned for a 200 response carrying content's member.
Fetched(c, content) ==
    /\ call[c].op = "FetchBlueprint" /\ BodyReadInFull(c)
    /\ res[c].StatusCode = StatusOK
    /\ res[c].Body.bytes = FetchBody(content)

CodeIs(c, text) ==
    /\ out[c].err.nil
    /\ out[c].result # NilPtr
    /\ out[c].result.v[1].v["Code"].v = text

IsValidUTF8(text) == \A i \in 1..Len(text) : text[i] # BAD

StagesDue(c) ==
    IF InvalidCall(c) THEN <<"NewRequest">>
    ELSE IF res[c] = NoResponse THEN <<"NewRequest", "Do">>
    ELSE IF \/ res[c].ContentLength < 0
            \/ res[c].Body.fail \/ res[c].Body.bytes = <<>>
            \/ call[c].op = "request"
            \/ call[c].op = "PublishBlueprint" /\ res[c].StatusCode = StatusCreated
         THEN <<"NewRequest", "Do", "readResponse">>
    ELSE IF call[c].op = "PublishBlueprint"
         THEN <<"NewRequest", "Do", "readResponse", "Unmarshal">>
    ELSE IF res[c].StatusCode # StatusOK
         THEN <<"NewRequest", "Do", "readResponse", "checkOk">>
    ELSE <<"NewRequest", "Do", "readResponse", "checkOk", "Unmarshal">>

\* The error fits the stage the call stopped at.
ErrorOfLastStage(c) ==
    LET last == trace[c][Len(trace[c])] IN
    CASE last = "NewRequest" -> out[c].err \in {InvalidMethod, InvalidURL}
      [] last = "Do" -> out[c].err = TransportError
      [] last = "readResponse" ->
            IF res[c].Body.fail THEN out[c].err = ReadError
            ELSE IF res[c].Body.bytes = <<>> THEN out[c].err = EmptyResponse
            ELSE out[c].err.nil
      [] last = "checkOk" -> out[c].err = BadResponseCode(res[c])
      [] last = "Unmarshal" ->
            out[c].err \notin {InvalidMethod, InvalidURL, TransportError, ReadError,
                               EmptyResponse, BadResponseCode(res[c])}

C17_FirstFailingStage ==
    \A c \in Callers :
        /\ pc[c] \in {"done", "panic"} => trace[c] = StagesDue(c)
        /\ Returned(c) => ErrorOfLastStage(c)
        /\ (BodyReadInFull(c) /\ call[c].op \in GetOps
                /\ res[c].StatusCode # StatusOK /\ ~BodyDecodes(c))
           => /\ out[c].err = BadResponseCode(res[c])
              /\ ~HasStage(c, "Unmarshal")

\* Me returned the status error for a 404 response whose body is not JSON,
\* and did not decode it.
C17_Witness ==
    \E c \in Callers :
        /\ call[c].op = "Me" /\ Returned(c)
        /\ res[c].StatusCode = StatusNotFound
        /\ res[c].Body = [bytes |-> <<LBRACE, WORD, RBRACE>>, fail |-> FALSE]
        /\ trace[c] = <<"NewRequest", "Do", "readResponse", "checkOk">>
        /\ out[c].err = NewError(<<"Bad response code: ", "404 Not Found">>)

(***************************************************************************)
(* C18.  GetApis, GetTeamApis and FetchBlueprint return a non-nil pointer  *)
(* whenever they return a nil error, also when the body is the JSON        *)
(* literal null.                                                           *)
(***************************************************************************)
PointerOps == {"GetApis", "GetTeamApis", "FetchBlueprint"}

C18_NilErrorNonNilPointer ==
    \A c \in Callers :
        (Returned(c) /\ call[c].op \in PointerOps /\ out[c].err.nil)
        => out[c].result # NilPtr

====
